---- MODULE Spec2Model ----
(***************************************************************************)
(* sharex-rs: a small HTTP upload server (src/src/main.rs).                *)
(*                                                                         *)
(*   POST /        check_auth -> upload      (store a multipart file)      *)
(*   GET  /:path   serve_media               (read a stored file back)     *)
(*                                                                         *)
(* Strings and payloads are sequences of byte values (ASCII codes), so     *)
(* that splitting, lower-casing, header decoding and extension extraction  *)
(* are computed the way the code computes them.  The media directory is a  *)
(* function from file names to contents.  Requests are served by tasks of  *)
(* a multi-threaded runtime; std::fs::write and std::fs::read are not      *)
(* atomic: write is open(create, truncate) followed by write_all, read is  *)
(* open followed by reads until one returns no bytes.  Every system call   *)
(* is taken to transfer all the bytes it is asked for.                     *)
(***************************************************************************)
EXTENDS Integers, Sequences, FiniteSets, TLC

VARIABLES
    TOKENS,     \* the TOKENS environment variable (an Option of a string)
    tokens,     \* the HashSet<String> built at startup and shared by the gate
    fs,         \* the media directory: file name -> contents
    conn,       \* per connection: the request being served and its progress
    nreq,       \* number of requests received so far
    generated,  \* history: storage name -> number of uploads that created it
    accepted    \* history: storage name -> payloads of the uploads answered 202

vars == <<TOKENS, tokens, fs, conn, nreq, generated, accepted>>

---------------------------------------------------------------------------
(* Bounds of the exploration.                                              *)

MaxConns == 2
MaxRequests == 3
MaxParts == 2
MaxFileNameLen == 3
MaxTokensLen == 2
MaxHeaderLen == 1
NumGenerated == 3

---------------------------------------------------------------------------
(* Program constants.                                                      *)

COMMA == 44
DOT == 46
SLASH == 47
NAME_LEN == 10
UNAUTHORIZED == 401
ACCEPTED == 202
BAD_REQUEST == 400
NOT_FOUND == 404
OK == 200

\* "file"
FILE_FIELD == <<102, 105, 108, 101>>
\* "no file found"
NO_FILE_FOUND == <<110, 111, 32, 102, 105, 108, 101, 32, 102, 111, 117, 110, 100>>

---------------------------------------------------------------------------
(* Option values and small sequence helpers.                               *)

None == [some |-> FALSE, val |-> <<>>]
Some(v) == [some |-> TRUE, val |-> v]
unwrap_or_default(o) == IF o.some THEN o.val ELSE <<>>

Range(s) == {s[i] : i \in DOMAIN s}
SeqsUpTo(S, n) == UNION {[1..k -> S] : k \in 0..n}

\* str::split(sep): the pieces between separators; an empty string gives [""].
RECURSIVE split(_, _)
split(s, sep) ==
    IF sep \notin Range(s)
    THEN <<s>>
    ELSE LET i == CHOOSE k \in DOMAIN s : s[k] = sep /\ \A j \in 1..(k-1) : s[j] # sep
         IN  <<SubSeq(s, 1, i-1)>> \o split(SubSeq(s, i+1, Len(s)), sep)

\* str::trim_start_matches(c)
RECURSIVE trim_start_matches(_, _)
trim_start_matches(s, c) ==
    IF s # <<>> /\ Head(s) = c THEN trim_start_matches(Tail(s), c) ELSE s

\* str::to_ascii_lowercase: 'A'..'Z' become 'a'..'z', every other byte is kept.
to_ascii_lowercase(s) ==
    [i \in DOMAIN s |-> IF s[i] >= 65 /\ s[i] <= 90 THEN s[i] + 32 ELSE s[i]]

---------------------------------------------------------------------------
(* Token store.                                                            *)

\* get_tokens: TOKENS (default "") split on ',' and collected into a set.
get_tokens(env) ==
    LET tokens_str == unwrap_or_default(env)
        pieces == split(tokens_str, COMMA)
    IN  {pieces[i] : i \in DOMAIN pieces}

---------------------------------------------------------------------------
(* Responses and the per-connection record.                                *)

Response(status, body) == [status |-> status, body |-> body]
NoResponse == Response(0, <<>>)
NoRequest == [method |-> "", path |-> <<>>, headers |-> None, body |-> <<>>]

\* What a handler did with a request: where the task stands, which handler
\* ran, the file it works on, and the media directory afterwards.
Effect(pc, ran, file_name, bytes, resp, files) ==
    [pc |-> pc, ran |-> ran, file_name |-> file_name, bytes |-> bytes,
     resp |-> resp, fs |-> files]

Idle ==
    [req |-> NoRequest, pc |-> "idle", ran |-> "none",
     file_name |-> <<>>, bytes |-> <<>>, buf |-> <<>>, seen |-> {},
     promised |-> {}, resp |-> NoResponse]

---------------------------------------------------------------------------
(* Auth gate.                                                              *)

\* HeaderValue::to_str: Ok only if every byte is visible ASCII or a tab.
to_str(value) ==
    IF \A i \in DOMAIN value :
          (value[i] >= 32 /\ value[i] < 127) \/ value[i] = 9
    THEN [ok |-> TRUE, val |-> value]
    ELSE [ok |-> FALSE, val |-> <<>>]

Rejected(files) ==
    Effect("done", "none", <<>>, <<>>, Response(UNAUTHORIZED, <<>>), files)

\* Faulty variant: the gate runs the handler before it looks at the header.
check_auth_runs_next_first(api_key, toks, next, files) ==
    IF api_key.some /\ to_str(api_key.val).ok /\ to_str(api_key.val).val \in toks
    THEN next
    ELSE [next EXCEPT !.pc = "done", !.ran = "none",
                      !.resp = Response(UNAUTHORIZED, <<>>)]

\* Faulty variant: a request without the header is let through.
check_auth_missing_header_passes(api_key, toks, next, files) ==
    IF api_key.some
    THEN LET token == to_str(api_key.val)
         IN  IF ~token.ok THEN Rejected(files)
             ELSE IF token.val \in toks THEN next ELSE Rejected(files)
    ELSE next

\* api_key: headers.get("api_key"); next: what next.run(request) does.
check_auth(api_key, toks, next, files) ==
    IF api_key.some
    THEN LET token == to_str(api_key.val)
         IN  IF ~token.ok THEN Rejected(files)
             ELSE IF token.val \in toks THEN next ELSE Rejected(files)
    ELSE Rejected(files)

---------------------------------------------------------------------------
(* File names.                                                             *)

\* Path::file_name: the last component, unless the path ends in "..".
\* Empty components and "." components are skipped.
file_name_of(p) ==
    LET cs == SelectSeq(split(p, SLASH), LAMBDA s : s # <<>> /\ s # <<DOT>>)
    IN  IF cs = <<>> THEN None
        ELSE IF cs[Len(cs)] = <<DOT, DOT>> THEN None
        ELSE Some(cs[Len(cs)])

\* rsplit_file_at_dot: (before, after) around the last '.'.
rsplit_file_at_dot(file) ==
    IF file = <<DOT, DOT>> THEN [before |-> Some(file), after |-> None]
    ELSE IF DOT \notin Range(file) THEN [before |-> None, after |-> Some(file)]
    ELSE LET i == CHOOSE k \in DOMAIN file :
                     file[k] = DOT /\ \A j \in (k+1)..Len(file) : file[j] # DOT
             before == SubSeq(file, 1, i-1)
             after == SubSeq(file, i+1, Len(file))
         IN  IF before = <<>>
             THEN [before |-> Some(file), after |-> None]
             ELSE [before |-> Some(before), after |-> Some(after)]

\* Path::extension
extension(p) ==
    LET f == file_name_of(p)
    IN  IF ~f.some THEN None
        ELSE LET r == rsplit_file_at_dot(f.val)
             IN  IF r.before.some THEN r.after ELSE None

\* Faulty variant: the extension is lower-cased as well.
get_ext_lowercased(name) == to_ascii_lowercase(unwrap_or_default(extension(name)))

\* File::get_ext
get_ext(name) == unwrap_or_default(extension(name))

\* The outputs of generate_file_name() that are explored: NAME_LEN
\* alphanumeric characters, differing in the first one ('x', 'X', '7', ...).
FirstChars == <<120, 88, 55, 81, 113, 66>>
RestChars == <<75, 57, 100, 81, 109, 90, 49, 112, 76>>

generate_file_name ==
    {[k \in 1..NAME_LEN |-> IF k = 1 THEN FirstChars[i] ELSE RestChars[k-1]]
        : i \in 1..NumGenerated}

---------------------------------------------------------------------------
(* Upload handler.                                                         *)

\* Faulty variant: the loop has no break, so the last field named "file" wins.
RECURSIVE last_file_field(_)
last_file_field(multipart) ==
    IF multipart = <<>> THEN None
    ELSE LET field == multipart[Len(multipart)]
         IN  IF unwrap_or_default(field.name) = FILE_FIELD
             THEN Some([name |-> unwrap_or_default(field.file_name),
                        bytes |-> field.bytes])
             ELSE last_file_field(SubSeq(multipart, 1, Len(multipart) - 1))

\* The while-let loop: the first field named "file", as File{name, bytes}.
RECURSIVE first_file_field(_)
first_file_field(multipart) ==
    IF multipart = <<>> THEN None
    ELSE LET field == Head(multipart)
         IN  IF unwrap_or_default(field.name) = FILE_FIELD
             THEN Some([name |-> unwrap_or_default(field.file_name),
                        bytes |-> field.bytes])
             ELSE first_file_field(Tail(multipart))

\* File::create: the file exists and is empty afterwards.
create(files, name) ==
    [n \in DOMAIN files \cup {name} |-> IF n = name THEN <<>> ELSE files[n]]

\* Faulty variant: write instead of write_all, with a short write.
write_first_byte_only(old, bytes) ==
    SubSeq(bytes, 1, 1) \o SubSeq(old, 2, Len(old))

\* One write(2) at the descriptor's own offset 0: the bytes replace the
\* start of the file and whatever lies beyond them stays.
write_at_start(old, bytes) == bytes \o SubSeq(old, Len(bytes) + 1, Len(old))

\* Faulty variant: a body without a file part is stored as an empty file.
upload_defaults_to_empty_file(multipart, g, files) ==
    LET found == first_file_field(multipart)
        file == IF found.some THEN found.val ELSE [name |-> <<>>, bytes |-> <<>>]
        file_name == to_ascii_lowercase(g) \o <<DOT>> \o get_ext(file.name)
        opened == create(files, file_name)
    IN  IF file.bytes = <<>>
        THEN Effect("done", "upload", file_name, <<>>,
                    Response(ACCEPTED, file_name), opened)
        ELSE Effect("writing", "upload", file_name, file.bytes,
                    NoResponse, opened)

\* upload, up to and including File::create inside std::fs::write.
upload(multipart, g, files) ==
    LET file == first_file_field(multipart)
    IN  IF file.some
        THEN LET file_name == to_ascii_lowercase(g) \o <<DOT>> \o get_ext(file.val.name)
                 opened == create(files, file_name)
             IN  IF file.val.bytes = <<>>
                 THEN Effect("done", "upload", file_name, <<>>,
                             Response(ACCEPTED, file_name), opened)
                 ELSE Effect("writing", "upload", file_name, file.val.bytes,
                             NoResponse, opened)
        ELSE Effect("done", "upload", <<>>, <<>>,
                    Response(BAD_REQUEST, NO_FILE_FOUND), files)

---------------------------------------------------------------------------
(* Media handler.                                                          *)

\* serve_media, up to and including File::open inside std::fs::read.
serve_media(path, files) ==
    LET trimmed == trim_start_matches(path, SLASH)
    IN  IF trimmed \in DOMAIN files
        THEN Effect("reading", "serve_media", trimmed, <<>>, NoResponse, files)
        ELSE Effect("done", "serve_media", trimmed, <<>>,
                    Response(NOT_FOUND, <<>>), files)

---------------------------------------------------------------------------
(* Router: check_auth is layered on the routes added before it.            *)

\* Faulty variant: the gate is layered after both routes were added.
content_gate_on_all_routes(req, toks, g, files) ==
    check_auth(req.headers, toks,
               IF req.method = "POST"
               THEN upload(req.body, g, files)
               ELSE serve_media(req.path, files),
               files)

content(req, toks, g, files) ==
    IF req.method = "POST"
    THEN check_auth(req.headers, toks, upload(req.body, g, files), files)
    ELSE serve_media(req.path, files)

---------------------------------------------------------------------------
(* State machine.                                                          *)

Conns == 1..MaxConns

\* Every task that holds a file open for reading sees each content the file
\* takes (history used to state what a read may return).
Observe(cs, files) ==
    [k \in Conns |->
        IF cs[k].pc = "reading"
        THEN [cs[k] EXCEPT !.seen = @ \cup {files[cs[k].file_name]}]
        ELSE cs[k]]

Bump(f, n) ==
    [k \in DOMAIN f \cup {n} |-> IF k = n THEN (IF n \in DOMAIN f THEN f[n] + 1 ELSE 1) ELSE f[k]]

Put(f, n, v) == [k \in DOMAIN f \cup {n} |-> IF k = n THEN v ELSE f[k]]

Add(f, n, v) ==
    [k \in DOMAIN f \cup {n} |->
        IF k = n THEN (IF n \in DOMAIN f THEN f[n] \cup {v} ELSE {v}) ELSE f[k]]

\* A request arrives and runs up to its first file system call.  It is
\* served on c, the first connection that has no request in progress.
Receive(c, req, g) ==
    /\ conn[c].pc \in {"idle", "done"}
    /\ \A k \in 1..(c - 1) : conn[k].pc \notin {"idle", "done"}
    /\ LET out == content(req, tokens, g, fs)
           trimmed == trim_start_matches(req.path, SLASH)
           task == [req |-> req, pc |-> out.pc, ran |-> out.ran,
                    file_name |-> out.file_name, bytes |-> out.bytes,
                    buf |-> <<>>, seen |-> {},
                    promised |-> IF req.method = "GET" /\ trimmed \in DOMAIN accepted
                                 THEN accepted[trimmed] ELSE {},
                    resp |-> out.resp]
       IN  /\ fs' = out.fs
           /\ conn' = Observe([conn EXCEPT ![c] = task], out.fs)
           /\ generated' = IF out.ran = "upload" /\ out.resp.status # BAD_REQUEST
                           THEN Bump(generated, out.file_name) ELSE generated
           /\ accepted' = IF out.resp.status = ACCEPTED
                          THEN Add(accepted, out.file_name, out.bytes) ELSE accepted
    /\ nreq' = nreq + 1
    /\ UNCHANGED <<TOKENS, tokens>>

Post(c, api_key, multipart, g) ==
    Receive(c, [method |-> "POST", path |-> <<SLASH>>, headers |-> api_key,
                body |-> multipart], g)

Get(c, api_key, path) ==
    Receive(c, [method |-> "GET", path |-> path, headers |-> api_key,
                body |-> <<>>], <<>>)

\* write_all inside std::fs::write, then the 202 response.
WriteAll(c) ==
    /\ conn[c].pc = "writing"
    /\ LET name == conn[c].file_name
           files == [fs EXCEPT ![name] = write_at_start(@, conn[c].bytes)]
       IN  /\ fs' = files
           /\ conn' = Observe([conn EXCEPT ![c].pc = "done",
                                           ![c].resp = Response(ACCEPTED, name)],
                              files)
           /\ accepted' = Add(accepted, name, conn[c].bytes)
    /\ UNCHANGED <<TOKENS, tokens, nreq, generated>>

\* One read(2) of read_to_end inside std::fs::read: the bytes beyond what was
\* read so far; when there are none, the 200 response.
ReadMore(c) ==
    /\ conn[c].pc = "reading"
    /\ LET data == fs[conn[c].file_name]
           more == SubSeq(data, Len(conn[c].buf) + 1, Len(data))
       IN  conn' = IF more = <<>>
                   THEN [conn EXCEPT ![c].pc = "done",
                                     ![c].resp = Response(OK, conn[c].buf)]
                   ELSE [conn EXCEPT ![c].buf = @ \o more]
    /\ UNCHANGED <<TOKENS, tokens, fs, nreq, generated, accepted>>

---------------------------------------------------------------------------
(* Inputs.                                                                 *)

EmptyDir == [n \in {} |-> <<>>]
NoHistory == [n \in {} |-> 0]

\* 'a', 'P', '.', '/'
NameBytes == {97, 80, DOT, SLASH}
\* 'a', ','
TokenBytes == {97, COMMA}
\* 'a', ',', and a byte that is not visible ASCII
HeaderBytes == {97, COMMA, 255}

FilePart(file_name, bytes) ==
    [name |-> Some(FILE_FIELD), file_name |-> file_name, bytes |-> bytes]

\* "a.P"
APicture == <<97, DOT, 80>>
\* "b.q"
BNote == <<98, DOT, 113>>

StoredNames(exts) ==
    {to_ascii_lowercase(g) \o <<DOT>> \o e : g \in generate_file_name, e \in exts}

\* Requested paths: the names an upload can return, one of them behind a
\* leading '/', and a name that is never stored ("n").
Paths(exts) ==
    StoredNames(exts)
        \cup {<<SLASH>> \o to_ascii_lowercase(g) \o <<DOT>> \o e :
                 g \in {x \in generate_file_name : x[1] = FirstChars[1]}, e \in exts}
        \cup {<<110>>}

\* Media directories a single-request exploration starts from: empty, or
\* holding one file stored by an earlier upload under a name that the
\* generator can produce again.
SeedName == to_ascii_lowercase(CHOOSE g \in generate_file_name : g[1] = FirstChars[1])
               \o <<DOT>> \o <<80>>
SeedBytes == <<2, 1, 2>>
Seeds == {[fs |-> EmptyDir, generated |-> NoHistory, accepted |-> EmptyDir],
          [fs |-> Put(EmptyDir, SeedName, SeedBytes),
           generated |-> Put(NoHistory, SeedName, 1),
           accepted |-> Put(EmptyDir, SeedName, {SeedBytes})]}

\* Concurrent exploration: authorized uploads of one file part named "a.P"
\* with payloads of three lengths under two generated names, and reads.
ConcTokens == Some(<<97>>)
ConcPayloads == {<<>>, <<1>>, <<2, 2>>}
ConcBodies == {<<FilePart(Some(APicture), b)>> : b \in ConcPayloads}
ConcGenerated == {g \in generate_file_name : g[1] \in {FirstChars[1], FirstChars[3]}}
ConcPaths ==
    {to_ascii_lowercase(g) \o <<DOT, 80>> : g \in ConcGenerated}
        \cup {<<SLASH>> \o SeedName, <<110>>}

\* Gate exploration: every TOKENS value and api_key header up to a length.
TokenEnvs == {None} \cup {Some(t) : t \in SeqsUpTo(TokenBytes, MaxTokensLen)}
Headers == {None} \cup {Some(h) : h \in SeqsUpTo(HeaderBytes, MaxHeaderLen)}
GateBodies == {<<>>, <<FilePart(Some(APicture), <<1, 2>>)>>}

\* Upload exploration: every multipart body of up to MaxParts parts drawn from
\* a few parts, and every client file name up to a length.
Parts ==
    {[name |-> n, file_name |-> f, bytes |-> b] :
        n \in {Some(FILE_FIELD), Some(<<116>>), None},
        f \in {Some(APicture), Some(BNote)},
        b \in {<<1>>, <<2, 2>>}}
FileNames == {None} \cup {Some(f) : f \in SeqsUpTo(NameBytes, MaxFileNameLen)}
UploadBodies ==
    SeqsUpTo(Parts, MaxParts) \cup {<<FilePart(f, <<1>>)>> : f \in FileNames}

---------------------------------------------------------------------------
(* Specifications.                                                         *)

\* upload_server: the token set is built once from the environment.
Startup(env, seed) ==
    /\ TOKENS = env
    /\ tokens = get_tokens(env)
    /\ fs = seed.fs
    /\ generated = seed.generated
    /\ accepted = seed.accepted
    /\ conn = [c \in Conns |-> Idle]
    /\ nreq = 0

\* Concurrent requests on MaxConns connections.
Init == Startup(ConcTokens, [fs |-> EmptyDir, generated |-> NoHistory, accepted |-> EmptyDir])

Next ==
    \E c \in Conns :
        \/ /\ nreq < MaxRequests
           /\ \E m \in ConcBodies, g \in ConcGenerated :
                  Post(c, Some(<<97>>), m, g)
        \/ /\ nreq < MaxRequests
           /\ \E p \in ConcPaths : Get(c, None, p)
        \/ WriteAll(c)
        \/ ReadMore(c)

Spec == Init /\ [][Next]_vars

\* One request, any TOKENS value, any api_key header.
InitGate == \E env \in TokenEnvs, seed \in Seeds : Startup(env, seed)

NextGate ==
    \/ /\ nreq = 0
       /\ \E h \in Headers, m \in GateBodies, g \in generate_file_name :
              Post(1, h, m, g)
    \/ /\ nreq = 0
       /\ \E h \in Headers, p \in Paths({<<80>>}) : Get(1, h, p)
    \/ WriteAll(1)
    \/ ReadMore(1)

SpecGate == InitGate /\ [][NextGate]_vars

\* One authorized request, any multipart body.
InitUpload == \E seed \in Seeds : Startup(ConcTokens, seed)

NextUpload ==
    \/ /\ nreq = 0
       /\ \E m \in UploadBodies, g \in generate_file_name :
              Post(1, Some(<<97>>), m, g)
    \/ /\ nreq = 0
       /\ \E p \in Paths({<<80>>}) : Get(1, None, p)
    \/ WriteAll(1)
    \/ ReadMore(1)

SpecUpload == InitUpload /\ [][NextUpload]_vars

---------------------------------------------------------------------------
(* Vocabulary of the properties, stated without the handlers' code.        *)

IsPost(c) == conn[c].req.method = "POST"
IsGet(c) == conn[c].req.method = "GET"

\* The step receives a request on connection c.
Received(c) == nreq' = nreq + 1 /\ conn'[c] # conn[c]

\* The header is present, decodes as text and is a member of the set.
Authorized(api_key, S) ==
    /\ api_key.some
    /\ \A i \in DOMAIN api_key.val :
          api_key.val[i] = 9 \/ api_key.val[i] \in 32..126
    /\ \E t \in S : t = api_key.val

NamedFile(part) == part.name.some /\ part.name.val = FILE_FIELD
FileParts(multipart) == {i \in DOMAIN multipart : NamedFile(multipart[i])}
FirstFilePart(multipart) ==
    multipart[CHOOSE i \in FileParts(multipart) : \A j \in FileParts(multipart) : i <= j]
OriginalName(part) == IF part.file_name.some THEN part.file_name.val ELSE <<>>

LowerAlnum(b) == b \in 48..57 \/ b \in 97..122
Lower(s) == [i \in DOMAIN s |-> IF s[i] \in 65..90 THEN s[i] + 32 ELSE s[i]]

\* The suffix after the last '.' of a name; empty when it has none.
SuffixAfterLastDot(F) ==
    LET dots == {i \in DOMAIN F : F[i] = DOT}
    IN  IF dots = {} THEN <<>>
        ELSE SubSeq(F, (CHOOSE i \in dots : \A j \in dots : j <= i) + 1, Len(F))

\* The final path component of a name: the last maximal '/'-free run that is
\* neither empty nor "."; none when there is no such run or it is "..".
Runs(F) ==
    {r \in (1..(Len(F) + 1)) \X (0..Len(F)) :
        /\ r[1] <= r[2] + 1
        /\ \A k \in r[1]..r[2] : F[k] # SLASH
        /\ r[1] = 1 \/ F[r[1] - 1] = SLASH
        /\ r[2] = Len(F) \/ F[r[2] + 1] = SLASH
        /\ r[1] <= r[2]
        /\ SubSeq(F, r[1], r[2]) # <<DOT>>}
\* The extension of a name: what follows the last '.' of its final component,
\* provided something precedes that '.'; empty otherwise.
ExtensionOf(F) ==
    IF Runs(F) = {} THEN <<>>
    ELSE LET r == CHOOSE x \in Runs(F) : \A y \in Runs(F) : y[1] <= x[1]
             comp == SubSeq(F, r[1], r[2])
             dots == {i \in DOMAIN comp : comp[i] = DOT}
         IN  IF comp = <<DOT, DOT>> \/ dots = {} THEN <<>>
             ELSE LET d == CHOOSE i \in dots : \A j \in dots : j <= i
                  IN  IF d = 1 THEN <<>> ELSE SubSeq(comp, d + 1, Len(comp))

\* name = ten lower-case alphanumerics, '.', ext
HasShape(name, ext) ==
    /\ Len(name) = 10 + 1 + Len(ext)
    /\ \A i \in 1..10 : LowerAlnum(name[i])
    /\ name[11] = DOT
    /\ SubSeq(name, 12, Len(name)) = ext

Stored(c) == IsPost(c) /\ conn[c].ran = "upload" /\ FileParts(conn[c].req.body) # {}

---------------------------------------------------------------------------
(* C1: a POST / request reaches the upload handler if and only if it       *)
(* carries an api_key header that decodes as text and is an exact member   *)
(* of the loaded token set; otherwise it is answered 401.                  *)
C1_AuthGateDecision ==
    \A c \in Conns :
        IsPost(c) =>
            IF Authorized(conn[c].req.headers, tokens)
            THEN conn[c].ran = "upload" /\ conn[c].resp.status # UNAUTHORIZED
            ELSE /\ conn[c].ran = "none"
                 /\ conn[c].pc = "done"
                 /\ conn[c].resp = Response(UNAUTHORIZED, <<>>)

\* An accepted request under a set of two tokens, one of them empty.
C1_Witness ==
    \E c \in Conns :
        /\ IsPost(c)
        /\ Cardinality(tokens) = 2
        /\ conn[c].req.headers = Some(<<97>>)
        /\ conn[c].ran = "upload"

(* C2 (as claimed): once an upload of B was answered 202 with name N, any  *)
(* later GET /N is answered 200 with body B, whatever uploads and reads    *)
(* happen in between.                                                      *)
C2_RoundTrip ==
    \A c \in Conns :
        (IsGet(c) /\ conn[c].pc = "done") =>
            \A B \in conn[c].promised : conn[c].resp = Response(OK, B)

(* C2 (amended): ... provided no other upload has generated the same       *)
(* storage name N.                                                         *)
C2_RoundTripUnlessCollision ==
    \A c \in Conns :
        (/\ IsGet(c) /\ conn[c].pc = "done"
         /\ conn[c].file_name \in DOMAIN generated
         /\ generated[conn[c].file_name] = 1) =>
            \A B \in conn[c].promised : conn[c].resp = Response(OK, B)

\* A stored payload read back through a path with a leading '/', after
\* another upload under another name.
C2_Witness ==
    \E c \in Conns :
        /\ IsGet(c) /\ conn[c].pc = "done" /\ conn[c].promised # {}
        /\ generated[conn[c].file_name] = 1
        /\ conn[c].req.path # conn[c].file_name
        /\ conn[c].resp.body # <<>>
        /\ Cardinality(DOMAIN fs) = 2

(* C3: a POST / request answered 401 never runs the upload handler and     *)
(* leaves the stored files and their contents as they were.                *)
C3_RejectedNoEffect ==
    [][\A c \in Conns :
          (Received(c) /\ conn'[c].req.method = "POST"
             /\ conn'[c].resp.status = UNAUTHORIZED) =>
              (fs' = fs /\ conn'[c].ran = "none" /\ conn'[c].pc = "done")]_vars

\* A rejected request that carried a file part, with a file already stored.
C3_Witness ==
    \E c \in Conns :
        /\ IsPost(c)
        /\ conn[c].resp.status = UNAUTHORIZED
        /\ FileParts(conn[c].req.body) # {}
        /\ conn[c].req.headers.some
        /\ DOMAIN fs # {}

(* C4: when TOKENS is unset or empty the loaded token set is empty and     *)
(* every POST / request is answered 401, also one with an empty api_key.   *)
C4_EmptyConfigDeniesAll ==
    (TOKENS = None \/ TOKENS = Some(<<>>)) =>
        /\ tokens = {}
        /\ \A c \in Conns :
              IsPost(c) => conn[c].ran = "none" /\ conn[c].resp.status = UNAUTHORIZED

(* C5: an authorized POST / whose multipart body has no part named "file"  *)
(* is answered 400 "no file found" and leaves the stored files unchanged.  *)
C5_NoFilePart ==
    [][\A c \in Conns :
          (Received(c) /\ conn'[c].req.method = "POST"
             /\ Authorized(conn'[c].req.headers, tokens)
             /\ FileParts(conn'[c].req.body) = {}) =>
              (/\ conn'[c].pc = "done"
               /\ conn'[c].resp = Response(BAD_REQUEST, NO_FILE_FOUND)
               /\ fs' = fs)]_vars

\* A 400 for a body of two parts, neither named "file", with a file stored.
C5_Witness ==
    \E c \in Conns :
        /\ IsPost(c)
        /\ conn[c].ran = "upload"
        /\ Len(conn[c].req.body) = 2
        /\ FileParts(conn[c].req.body) = {}
        /\ conn[c].resp.status = BAD_REQUEST
        /\ DOMAIN fs # {}

(* C6: a read is answered 200 with the full contents the file has, or 404  *)
(* with an empty body when it cannot be read.  seen holds every content    *)
(* the file had from the moment it was opened.                             *)
C6_ReadOutcome ==
    \A c \in Conns :
        (IsGet(c) /\ conn[c].pc = "done") =>
            \/ conn[c].resp.status = OK /\ conn[c].resp.body \in conn[c].seen
            \/ conn[c].resp = Response(NOT_FOUND, <<>>)

(* C7: the answer to GET /<path> does not depend on the api_key header nor *)
(* on the token set: the gate is not applied to the read route.            *)
C7_ReadsIgnoreCredentials ==
    /\ \A c \in Conns :
          IsGet(c) => conn[c].ran = "serve_media" /\ conn[c].resp.status # UNAUTHORIZED
    /\ \A p \in Paths({<<80>>}), h \in Headers, S \in {get_tokens(env) : env \in TokenEnvs} :
          content([method |-> "GET", path |-> p, headers |-> h, body |-> <<>>],
                  S, <<>>, fs)
            = content([method |-> "GET", path |-> p, headers |-> None, body |-> <<>>],
                      tokens, <<>>, fs)

\* A stored file served to a request whose api_key is not a valid token.
C7_Witness ==
    \E c \in Conns :
        /\ IsGet(c)
        /\ conn[c].req.headers.some
        /\ ~Authorized(conn[c].req.headers, tokens)
        /\ conn[c].resp.status = OK
        /\ conn[c].resp.body # <<>>

C9_FirstFilePartWins ==
    \A c \in Conns :
        Stored(c) =>
            LET part == FirstFilePart(conn[c].req.body)
                name == conn[c].file_name
            IN  /\ SubSeq(name, 12, Len(name)) = ExtensionOf(OriginalName(part))
                /\ conn[c].pc = "writing" => conn[c].bytes = part.bytes
                /\ conn[c].pc = "done" =>
                      /\ fs[name] = part.bytes
                      /\ conn[c].resp = Response(ACCEPTED, name)

\* A stored upload whose body had another part first and whose two parts
\* differ in file name and payload.
C9_Witness ==
    \E c \in Conns :
        /\ Stored(c)
        /\ conn[c].pc = "done"
        /\ Len(conn[c].req.body) = 2
        /\ FileParts(conn[c].req.body) = {1, 2}
        /\ conn[c].req.body[1].bytes # conn[c].req.body[2].bytes
        /\ conn[c].req.body[1].file_name # conn[c].req.body[2].file_name

(* C10: when two uploads generate the same storage name, both are answered *)
(* 202 with it and, once both have finished, the stored file holds exactly *)
(* one of the two payloads.                                                *)
C10_CollidingUploads ==
    \A c1 \in Conns, c2 \in Conns :
        (/\ c1 # c2
         /\ IsPost(c1) /\ conn[c1].pc = "done" /\ conn[c1].resp.status = ACCEPTED
         /\ IsPost(c2) /\ conn[c2].pc = "done" /\ conn[c2].resp.status = ACCEPTED
         /\ conn[c1].file_name = conn[c2].file_name
         /\ generated[conn[c1].file_name] = 2) =>
            fs[conn[c1].file_name] \in {conn[c1].bytes, conn[c2].bytes}

====
